---------------------------- MODULE Spec2Model ----------------------------
(***************************************************************************)
(* Screen capture tool (src/screen_capture_tool.py): the session data      *)
(* model, its persistence in the sessions directory, and the capture       *)
(* state machine driven by the global hotkey.                              *)
(*                                                                         *)
(* Two threads touch the state.  The Tk main loop runs the button and      *)
(* editor handlers; each handler is one action.  The keyboard listener     *)
(* thread runs capture_screen, which is registered directly as the hotkey  *)
(* callback (line 665): it handles one queued key event at a time and     *)
(* gives way to the main loop where it blocks, that is while the preview   *)
(* window is open (wait_window, line 1372) and before the image write.     *)
(*                                                                         *)
(* Sessions are Python dicts, shared by reference between                  *)
(* self.current_session, self.history_sessions and the editor windows, so  *)
(* they live in a heap of references.  Timestamps have a resolution of     *)
(* one second and are modelled by the integer clock `now`.                 *)
(***************************************************************************)
EXTENDS Integers, Sequences, FiniteSets, TLC

\* ------------------------------------------------------------- bounds
\* A run takes at most MaxInputs inputs from outside: sessions started,
\* presses of the hotkey, and seconds elapsed on the wall clock.
MaxInputs  == 3
MaxEditors == 1       \* editor windows open at the same time

Sids  == 1..MaxInputs                     \* session ids (uuid4 strings in the code)
Refs  == 1..(MaxInputs + MaxEditors + 1)  \* dict objects alive at once
Times == 1..(MaxInputs + 1)

None   == 0           \* Python None / "" for ids, handles and timestamps
NoTime == 0           \* end_time "" of a session that has not been stopped

\* ------------------------------------------------------------- data
Keys == {"id", "name", "description", "start_time", "end_time", "duration", "captures"}

\* _init_empty_session: the dict current_session holds before any start.
EmptySession ==
    [id |-> None, name |-> "", description |-> "", start_time |-> NoTime,
     end_time |-> NoTime, duration |-> 0, captures |-> <<>>, absent |-> {}]

\* A slot of the heap that holds no live dict.
Free == [EmptySession EXCEPT !.name = "<free>"]

\* A session dict as start_capture builds it.  `absent` is the set of keys a
\* dict decoded from a record file lacks; a dict built by the tool lacks none.
NewSession(sid, name, desc, t) ==
    [id |-> sid, name |-> name, description |-> desc, start_time |-> t,
     end_time |-> NoTime, duration |-> 0, captures |-> <<>>, absent |-> {}]

\* simpledialog text after .strip(): the inputs are "", blanks, or a name
\* with surrounding blanks.
Strip(s) ==
    CASE s = "  "   -> ""
      [] s = " A "  -> "A"
      [] s = " B "  -> "B"
      [] OTHER      -> s

\* Content of a record file <sid>.json in the sessions directory.
NoFile      == [kind |-> "none",    val |-> EmptySession]
GarbageFile == [kind |-> "garbage", val |-> EmptySession]
JsonFile(s) == [kind |-> "json",    val |-> s]

\* ------------------------------------------------------------- helpers
Min(S) == CHOOSE x \in S : \A y \in S : x <= y

RECURSIVE SetToSeq(_)
SetToSeq(S) == IF S = {} THEN <<>> ELSE <<Min(S)>> \o SetToSeq(S \ {Min(S)})

Range(s) == {s[i] : i \in 1..Len(s)}

\* The orders in which os.listdir may return the files of S.
Listings(S) ==
    {o \in [1..Cardinality(S) -> S] : \A i, j \in 1..Cardinality(S) : o[i] = o[j] => i = j}

Front(s) == SubSeq(s, 1, Len(s) - 1)


\* ------------------------------------------------------------- state
VARIABLES
    app,                 \* "init" before __init__ has run, then "running" or "crashed"
    now,                 \* wall clock, in seconds, as last read
    is_capturing,        \* self.is_capturing
    hotkey_obj,          \* self.hotkey_obj: handle of the registered hotkey, or None
    current_session_id,  \* self.current_session_id
    current_session,     \* self.current_session: reference of the dict
    images_dir,          \* self.images_dir: id naming the directory, or None
    start_time,          \* self.start_time: time.time() at arming
    heap,                \* reference -> session dict
    history_sessions,    \* self.history_sessions: sequence of references
    history_tree,        \* tags of the rows of self.history_tree
    editors,             \* open editor windows: [session: reference, rows: shown rows]
    records,             \* sessions directory: id -> content of <id>.json
    img_files,           \* image files on disk: [dir, ts]
    dirs,                \* image directories on disk
    registered,          \* hotkey registrations alive in the keyboard library
    combos,              \* key combination of each registration alive
    queue,               \* key events waiting for the listener's processing thread
    todo,                \* callbacks the listener still owes the event it took
    event,               \* number of the key event the listener is working on
    handlers,            \* capture_screen invocations in progress, innermost last
    trig,                \* key events so far
    nextId,              \* sessions created so far (stands for uuid4 freshness)
    op,                  \* last handler that ran and how it ended
    hotkey,              \* self.hotkey: the configured combination, as its '+' parts
    config_file,         \* content of Config.CONFIG_FILE
    canvas,              \* preview canvas: scale, x_pos, y_pos
    current_mode,        \* preview tool: "select" or "draw"
    rect_id,             \* preview: a selection rectangle is being dragged
    start_xy,            \* preview: start_x, start_y of the gesture
    drawing,             \* preview: a stroke is being drawn
    current_line,        \* preview: canvas points of the stroke being drawn
    selected_region,     \* preview: accepted crop box, <<>> for None
    annotation_paths,    \* preview: finished strokes in image coordinates
    text_annotations,    \* preview: text labels, anchor in image coordinates
    result,              \* preview_window.result once a button was pressed
    scale_factor,        \* image viewer of the editor: scale_factor
    wheels,              \* wheel events handled by the preview so far
    reedit               \* preview_screenshot waiting for its preview window

vars == <<app, now, is_capturing, hotkey_obj, current_session_id, current_session,
          images_dir, start_time, heap, history_sessions, history_tree, editors,
          records, img_files, dirs, registered, combos, queue, todo, event, handlers,
          trig, nextId, op, hotkey, config_file, canvas, current_mode, rect_id,
          start_xy, drawing, current_line, selected_region, annotation_paths,
          text_annotations, result, scale_factor, wheels, reedit>>

ui_vars   == <<is_capturing, hotkey_obj, current_session_id, current_session,
               images_dir, start_time>>
mem_vars  == <<heap, history_sessions, history_tree, editors>>
disk_vars == <<records, img_files, dirs>>
key_vars  == <<registered, combos, queue, todo, event, handlers, trig>>
set_vars  == <<hotkey, config_file>>
preview_vars == <<canvas, current_mode, rect_id, start_xy, drawing, current_line,
                  selected_region, annotation_paths, text_annotations, result,
                  scale_factor, wheels>>
edit_vars    == <<reedit>>
dialog_vars  == <<set_vars, preview_vars, edit_vars>>

EditorRefs(eds) == {e.session : e \in eds}

\* Drops the dicts nothing refers to any more.
Collect(h, roots) == [r \in Refs |-> IF r \in roots THEN h[r] ELSE Free]

Roots(cur, hist, eds) == {cur} \cup Range(hist) \cup EditorRefs(eds)

\* ------------------------------------------------------------- session store
\* json.dump(session): the document has one member per key of the dict, the
\* captures as an array of objects in list order.  All values are strings,
\* integers, lists and dicts with string keys.
json_dump(s) ==
    [id |-> s.id, name |-> s.name, description |-> s.description,
     start_time |-> s.start_time, end_time |-> s.end_time, duration |-> s.duration,
     captures |-> [i \in 1..Len(s.captures) |->
                     [id |-> s.captures[i].id, time |-> s.captures[i].time,
                      description |-> s.captures[i].description,
                      image_path |-> s.captures[i].image_path,
                      trig |-> s.captures[i].trig]],
     absent |-> s.absent]

\* json.load(f): a new dict with the members of the document, nothing added
\* for a member the document lacks.
json_load(doc) ==
    [id |-> doc.id, name |-> doc.name, description |-> doc.description,
     start_time |-> doc.start_time, end_time |-> doc.end_time, duration |-> doc.duration,
     captures |-> [i \in 1..Len(doc.captures) |->
                     [id |-> doc.captures[i].id, time |-> doc.captures[i].time,
                      description |-> doc.captures[i].description,
                      image_path |-> doc.captures[i].image_path,
                      trig |-> doc.captures[i].trig]],
     absent |-> doc.absent]

\* save_session: full overwrite of <id>.json with json.dump of the dict; a
\* failure to open or write is reported and swallowed.  With outcome "fail"
\* open() raises and the file is untouched; with "cut" the write ends after
\* open(path, "w") has emptied the file, which then holds nothing or the
\* beginning of the document.
save_session(recs, s, outcome) ==
    CASE outcome = "ok"  -> [recs EXCEPT ![s.id] = JsonFile(json_dump(s))]
      [] outcome = "cut" -> [recs EXCEPT ![s.id] = GarbageFile]
      [] OTHER           -> recs

\* save_current_session: saves whenever an id has been allocated.
SaveCurrentGuard(sid, s) == sid # None /\ Keys \ s.absent # {}

save_current_session(recs, sid, s, outcome) ==
    IF SaveCurrentGuard(sid, s) THEN save_session(recs, s, outcome) ELSE recs

RecordFiles(recs) == {sid \in Sids : recs[sid].kind # "none"}

\* The loop of load_history_sessions over the listing `order`: every file is
\* opened and decoded inside the one try block, so the first file that does
\* not decode ends the loop.
RECURSIVE LoadLoop(_, _, _, _)
LoadLoop(recs, order, i, acc) ==
    IF i > Len(order) THEN [vals |-> acc, err |-> FALSE]
    ELSE IF recs[order[i]].kind = "garbage" THEN [vals |-> acc, err |-> TRUE]
    ELSE LoadLoop(recs, order, i + 1, Append(acc, json_load(recs[order[i]].val)))

\* list.sort(key=start_time, reverse=True): stable, newest first.
RECURSIVE SortNewestFirst(_)
SortNewestFirst(s) ==
    IF s = <<>> THEN <<>>
    ELSE LET t == SortNewestFirst(Front(s))
             x == s[Len(s)]
             k == Cardinality({i \in 1..Len(t) : t[i].start_time >= x.start_time})
         IN SubSeq(t, 1, k) \o <<x>> \o SubSeq(t, k + 1, Len(t))

\* load_history_sessions as a function of the directory and its listing:
\* the dicts in their final order, and whether the except branch was taken.
\* The sort reads x["start_time"]: a dict without it raises KeyError, which
\* leaves the list as the loop built it.
LoadValues(recs, order) ==
    LET l == LoadLoop(recs, order, 1, <<>>)
        nokey == \E i \in 1..Len(l.vals) : "start_time" \in l.vals[i].absent
    IN IF l.err \/ nokey THEN [vals |-> l.vals, err |-> TRUE]
       ELSE [vals |-> SortNewestFirst(l.vals), err |-> FALSE]

\* The loaded dicts are new objects: they take the references that neither
\* current_session nor an editor window holds.
LoadHistory(h, keep, recs, order) ==
    LET l    == LoadValues(recs, order)
        free == SetToSeq(Refs \ keep)
        hist == [i \in 1..Len(l.vals) |-> free[i]]
    IN [hist |-> hist,
        heap |-> [r \in Refs |->
                    IF \E i \in 1..Len(hist) : hist[i] = r
                    THEN l.vals[CHOOSE i \in 1..Len(hist) : hist[i] = r]
                    ELSE h[r]],
        err  |-> l.err]

\* Keys update_history_list reads of every session.
TreeKeys == {"name", "start_time", "duration", "captures", "id"}

\* update_history_list: clears the tree and inserts one row per session; a
\* dict that lacks a key raises KeyError after the rows before it were added.
RECURSIVE UpdateTree(_, _, _, _)
UpdateTree(h, hist, i, acc) ==
    IF i > Len(hist) THEN [tree |-> acc, exc |-> FALSE]
    ELSE IF h[hist[i]].absent \cap TreeKeys # {} THEN [tree |-> acc, exc |-> TRUE]
    ELSE UpdateTree(h, hist, i + 1, Append(acc, h[hist[i]].id))

update_history_list(h, hist) == UpdateTree(h, hist, 1, <<>>)

\* ------------------------------------------------------------- initial state
\* Config.DEFAULT_HOTKEY "ctrl+alt+o", split at '+'.
DEFAULT_HOTKEY == <<"ctrl", "alt", "o">>

\* preview_window.result before a button of the preview was pressed.
Pending == [done |-> FALSE, crop |-> <<>>, lines |-> <<>>, labels |-> <<>>]

\* No preview_screenshot call is in progress.
NoReEdit == [open |-> FALSE, session |-> 0, target |-> 0,
             path |-> [dir |-> 0, ts |-> 0],
             original |-> [auto |-> 0, text |-> ""]]

\* No settings dialog has been used and no preview window is open.
NoDialogs ==
    /\ hotkey = DEFAULT_HOTKEY
    /\ config_file = <<>>
    /\ canvas = [scale |-> [n |-> 1, d |-> 1], x_pos |-> [n |-> 0, d |-> 1],
                 y_pos |-> [n |-> 0, d |-> 1]]
    /\ current_mode = "select"
    /\ rect_id = FALSE
    /\ start_xy = <<0, 0>>
    /\ drawing = FALSE
    /\ current_line = <<>>
    /\ selected_region = <<>>
    /\ annotation_paths = <<>>
    /\ text_annotations = <<>>
    /\ result = Pending
    /\ scale_factor = [n |-> 1, d |-> 1]
    /\ wheels = 0
    /\ reedit = NoReEdit

\* The main window after __init__ on an empty sessions directory.
NoSessions ==
    /\ app = "running"
    /\ now = 1
    /\ is_capturing = FALSE
    /\ hotkey_obj = None
    /\ current_session_id = None
    /\ current_session = 1
    /\ images_dir = None
    /\ start_time = 0
    /\ heap = [r \in Refs |-> IF r = 1 THEN EmptySession ELSE Free]
    /\ history_sessions = <<>>
    /\ history_tree = <<>>
    /\ editors = {}
    /\ records = [sid \in Sids |-> NoFile]
    /\ img_files = {}
    /\ dirs = {}
    /\ registered = {}
    /\ combos = [h \in Sids |-> <<>>]
    /\ queue = <<>>
    /\ todo = 0
    /\ event = 0
    /\ handlers = <<>>
    /\ trig = 0
    /\ nextId = 0
    /\ op = "init"

\* After __init__ on an empty sessions directory.
Init == NoSessions /\ NoDialogs

\* ------------------------------------------------------------- clock
\* What datetime.now() and time.time() may return when a handler reads them:
\* the second last read, or a later one.  `now` is the last value read.
Used == nextId + trig + (now - 1)      \* inputs taken so far

\* Readings that leave room for k further inputs.
Clock(k) == {t \in Times : t >= now /\ Used + (t - now) + k <= MaxInputs}

\* ------------------------------------------------------------- environment
\* What the user types and how the operating system answers.  An environment
\* is a record of the sets the actions draw their inputs from.
FullEnv ==
    [names |-> {"<cancel>", "", "  ", " A "},   \* askstring for the session name
     descs |-> {"<cancel>", "d"},               \* askstring for the description
     texts |-> {"", "d"},                       \* description typed in the preview
     mk    |-> {"ok", "fail"},                  \* os.makedirs
     hk    |-> {"ok", "perm", "err"},           \* keyboard.add_hotkey
     rm    |-> {"ok", "fail"},                  \* keyboard.remove_hotkey
     grab  |-> {"ok", "import_error", "error"}, \* ImageGrab.grab
     img   |-> {"ok", "fail"},                  \* Image.save
     sv    |-> {"ok", "fail"},                  \* open/json.dump of a record file
     del   |-> {"ok", "fail"}]                  \* os.remove of an image file

\* ------------------------------------------------------------- start / stop
\* Mutation of StartRejected: a start is never refused.
StartAlways == FALSE

\* start_capture, first lines: a start while capturing is refused.
StartRejected == is_capturing

\* Mutation of NameMissing: only a cancelled dialog counts as no name.
OnlyCancelled(name) == name = "<cancel>"

\* start_capture: `not session_name or not session_name.strip()`.
NameMissing(name) == name = "<cancel>" \/ name = "" \/ Strip(name) = ""

\* start_capture from the allocation of the id on.  mk is the outcome of
\* os.makedirs in ensure_dir, hk the outcome of keyboard.add_hotkey.
start_session(name, desc, mk, hk, t) ==
    /\ records[nextId + 1].kind = "none"      \* uuid4: the id is not in use
    /\ now' = t
    /\ LET sid  == nextId + 1
           ref  == Min(Refs \ (Range(history_sessions) \cup EditorRefs(editors)))
           sess == NewSession(sid, Strip(name), IF desc = "<cancel>" THEN "" ELSE desc, t)
       IN /\ nextId' = sid
          /\ current_session_id' = sid
          /\ current_session' = ref
          /\ heap' = Collect([heap EXCEPT ![ref] = sess],
                             Roots(ref, history_sessions, editors))
          /\ images_dir' = sid
          /\ UNCHANGED <<history_sessions, history_tree, editors, records, img_files>>
          /\ IF mk # "ok" THEN
                /\ op' = "start_dir_failed"
                /\ UNCHANGED <<dirs, hotkey_obj, registered, combos, is_capturing, start_time>>
             ELSE IF hk # "ok" THEN
                /\ dirs' = dirs \cup {sid}
                /\ op' = IF hk = "perm" THEN "start_hotkey_denied"
                                        ELSE "start_hotkey_failed"
                /\ UNCHANGED <<hotkey_obj, registered, combos, is_capturing, start_time>>
             ELSE
                /\ dirs' = dirs \cup {sid}
                /\ hotkey_obj' = sid
                /\ registered' = registered \cup {sid}
                /\ combos' = [combos EXCEPT ![sid] = hotkey]
                /\ is_capturing' = TRUE
                /\ start_time' = t
                /\ op' = "start_armed"

start_capture(env) ==
    IF StartRejected THEN
        /\ op' = "start_rejected"
        /\ UNCHANGED <<now, ui_vars, mem_vars, disk_vars, registered, combos, nextId>>
    ELSE
        \E name \in env.names :
            IF NameMissing(name) THEN
                /\ op' = "start_no_name"
                /\ UNCHANGED <<now, ui_vars, mem_vars, disk_vars, registered, combos, nextId>>
            ELSE
                \E desc \in env.descs, t \in Clock(1) :
                    \/ \E mk \in env.mk \ {"ok"} : start_session(name, desc, mk, "ok", t)
                    \/ \E hk \in env.hk : start_session(name, desc, "ok", hk, t)

StartCapture(env) ==
    /\ app = "running"
    /\ start_capture(env)
    /\ UNCHANGED <<app, dialog_vars, queue, todo, event, handlers, trig>>

\* Mutation of Stamped: the session is left as it was.
Unstamped(s, t, t0) == s

\* stop_capture: end_time = get_timestamp(), duration = int(time.time() -
\* self.start_time), with t0 the start_time.
Stamped(s, t, t0) == [s EXCEPT !.end_time = t, !.duration = t - t0]

\* stop_capture once it is known that a capture is running.  rm is the
\* outcome of keyboard.remove_hotkey, sv of writing the record file.
stop_session(rm, sv, t) ==
    LET removed == hotkey_obj # None /\ rm = "ok"
        h1      == [heap EXCEPT ![current_session] =
                                   Stamped(heap[current_session], t, start_time)]
        recs1   == save_current_session(records, current_session_id,
                                        h1[current_session], sv)
    IN \E order \in Listings(RecordFiles(recs1)) :
        LET ld    == LoadHistory(h1, {current_session} \cup EditorRefs(editors),
                                 recs1, order)
            ut    == update_history_list(ld.heap, ld.hist)
            opens == ~ut.exc /\ h1[current_session].captures # <<>>
            eds   == IF opens
                     THEN editors \cup {[session |-> current_session,
                                         rows |-> Len(h1[current_session].captures)]}
                     ELSE editors
        IN /\ Cardinality(eds) <= MaxEditors
           /\ now' = t
           /\ hotkey_obj' = IF removed THEN None ELSE hotkey_obj
           /\ registered' = IF removed THEN registered \ {hotkey_obj} ELSE registered
           /\ combos' = IF removed THEN [combos EXCEPT ![hotkey_obj] = <<>>] ELSE combos
           /\ is_capturing' = FALSE
           /\ records' = recs1
           /\ history_sessions' = ld.hist
           /\ history_tree' = ut.tree
           /\ editors' = eds
           /\ heap' = Collect(ld.heap, Roots(current_session, ld.hist, eds))
           /\ op' = IF ut.exc THEN "stop_exception"
                    ELSE IF opens THEN "stop_editor" ELSE "stop_empty"
           /\ UNCHANGED <<current_session_id, current_session, images_dir, start_time>>

\* stop_capture.  It runs on the main loop (stop button, window close) and on
\* the listener thread (capture_screen, ImportError branch), so it constrains
\* only the variables it touches.
stop_capture(env) ==
    IF ~is_capturing THEN
        /\ op' = "stop_noop"
        /\ UNCHANGED <<now, ui_vars, mem_vars, records, registered, combos>>
    ELSE
        \E sv \in env.sv, t \in Clock(0) :
            IF hotkey_obj # None
            THEN \E rm \in env.rm : stop_session(rm, sv, t)
            ELSE stop_session("ok", sv, t)

StopCapture(env) ==
    /\ app = "running"
    /\ stop_capture(env)
    /\ UNCHANGED <<app, dialog_vars, img_files, dirs, queue, todo, event, handlers, trig, nextId>>

\* ------------------------------------------------------------- hotkey listener
\* The user presses the key combination; the keyboard library queues the event.
HotkeyPress ==
    /\ app = "running"
    /\ registered # {}
    /\ Used < MaxInputs
    /\ trig' = trig + 1
    /\ queue' = Append(queue, trig + 1)
    /\ UNCHANGED <<app, dialog_vars, now, ui_vars, mem_vars, disk_vars, registered, combos, todo, event,
                   handlers, nextId, op>>

\* Mutation of ListenerBusy: a callback in progress does not hold the thread.
NeverBusy == FALSE

\* capture_screen is the callback itself, so the listener's processing thread
\* stays inside it until it returns: it takes no further event meanwhile.
ListenerBusy == handlers # <<>>

\* Mutation of NextEvent: the newest event first.
LastEvent(q) == q[Len(q)]

\* The processing thread takes the oldest event.
NextEvent(q) == Head(q)

\* ------------------------------------------------------------- capture_screen
Top(hs) == hs[Len(hs)]
Pop(hs) == SubSeq(hs, 1, Len(hs) - 1)

\* `description or f"record {capture_count}"`
DescriptionOr(text, n) == IF text = "" THEN [auto |-> n, text |-> ""]
                                       ELSE [auto |-> 0, text |-> text]

\* capture_count = len(captures) + 1
NextCaptureId(caps) == Len(caps) + 1

\* captures.append(record)
AddCapture(caps, c) == Append(caps, c)

\* capture_screen up to the opening of the preview window, called for key
\* event number t.
capture_begin(env, t) ==
    IF ~is_capturing THEN
        /\ op' = "trigger_ignored"
        /\ UNCHANGED <<now, ui_vars, mem_vars, records, dirs, registered, combos, handlers>>
    ELSE
        \/ /\ images_dir \notin dirs
           /\ \E mk \in env.mk \ {"ok"} :
                /\ op' = "trigger_failed"
                /\ UNCHANGED <<now, ui_vars, mem_vars, records, dirs, registered, combos, handlers>>
        \/ /\ images_dir \in dirs \/ "ok" \in env.mk
           /\ dirs' = dirs \cup {images_dir}
           /\ \E g \in env.grab :
                CASE g = "error" ->
                      /\ op' = "trigger_failed"
                      /\ UNCHANGED <<now, ui_vars, mem_vars, records, registered, combos, handlers>>
                  [] g = "import_error" ->
                      /\ stop_capture(env)
                      /\ UNCHANGED handlers
                  [] OTHER ->
                      /\ handlers' = Append(handlers, [pc |-> "preview", trig |-> t])
                      /\ op' = "trigger_preview"
                      /\ UNCHANGED <<now, ui_vars, mem_vars, records, registered, combos>>

\* The processing thread takes an event and owes one callback to every
\* registration that matches at that moment; it makes the first call at once.
ListenerTake(env) ==
    /\ app = "running"
    /\ queue # <<>>
    /\ todo = 0
    /\ ~ListenerBusy
    /\ queue' = SetToSeq(Range(queue) \ {NextEvent(queue)})   \* the rest, oldest first
    /\ IF registered = {} THEN
          /\ UNCHANGED <<now, ui_vars, mem_vars, disk_vars, registered, combos, handlers, todo,
                         event, op>>
       ELSE
          /\ todo' = Cardinality(registered) - 1
          /\ event' = IF Cardinality(registered) = 1 THEN 0 ELSE NextEvent(queue)
          /\ capture_begin(env, NextEvent(queue))
          /\ UNCHANGED img_files
    /\ UNCHANGED <<app, dialog_vars, trig, nextId>>

\* The next callback for the same event, once the one before has returned.
ListenerAgain(env) ==
    /\ app = "running"
    /\ todo > 0
    /\ ~ListenerBusy
    /\ todo' = todo - 1
    /\ event' = IF todo = 1 THEN 0 ELSE event
    /\ capture_begin(env, event)
    /\ UNCHANGED <<app, dialog_vars, queue, trig, nextId, img_files>>

\* Mutation of SaveFailed: the failure is not noticed.
SaveIgnored(img) == FALSE

\* capture_screen: final_image.save raises (lines 770-784).
SaveFailed(img) == img # "ok"

\* final_image.save(img_path): the file exists unless the call fails.
write_image(files, path, img) == IF img = "ok" THEN files \cup {path} ELSE files

\* capture_screen after the preview returned a result: the image is written
\* to capture_<timestamp>.png under self.images_dir and the record is
\* appended to self.current_session, both as they are at that moment.
capture_save(frame, text, img, t) ==
    IF SaveFailed(img) \/ images_dir \notin dirs THEN
        /\ op' = "capture_save_failed"
        /\ now' = t
        /\ UNCHANGED <<heap, img_files>>
    ELSE
        LET caps == heap[current_session].captures
            n    == NextCaptureId(caps)
            path == [dir |-> images_dir, ts |-> t]
            cap  == [id |-> n, time |-> t,
                     description |-> DescriptionOr(text, n),
                     image_path |-> path, trig |-> frame.trig]
        IN /\ now' = t
           /\ img_files' = write_image(img_files, path, img)
           /\ heap' = [heap EXCEPT ![current_session].captures = AddCapture(caps, cap)]
           /\ op' = "capture_added"

\* Mutation of NoResult: a missing result is not noticed.
AnyResult(res) == FALSE

\* capture_screen: `if not result: return`; on_cancel leaves None.
NoResult(res) == res = "<cancel>"

\* capture_screen from the return of show_capture_preview on.
capture_end(frame, res, img, t) ==
    IF NoResult(res) THEN
        /\ op' = "trigger_cancelled"
        /\ UNCHANGED <<now, heap, img_files>>
    ELSE capture_save(frame, res, img, t)

\* show_capture_preview.on_cancel: result None, capture_screen returns.
PreviewCancel ==
    /\ handlers # <<>>
    /\ handlers' = Pop(handlers)
    /\ capture_end(Top(handlers), "<cancel>", "ok", now)
    /\ UNCHANGED <<app, dialog_vars, ui_vars, history_sessions, history_tree, editors,
                   records, dirs, registered, combos, queue, todo, event, trig, nextId>>

\* show_capture_preview.on_confirm: result (image, description.strip()); the
\* window closes and capture_screen runs to its end.
PreviewConfirm(env) ==
    /\ handlers # <<>>
    /\ handlers' = Pop(handlers)
    /\ \E text \in env.texts, img \in env.img, t \in Clock(0) :
          capture_end(Top(handlers), text, img, t)
    /\ UNCHANGED <<app, dialog_vars, ui_vars, history_sessions, history_tree, editors,
                   records, dirs, registered, combos, queue, todo, event, trig, nextId>>

\* ------------------------------------------------------------- editor window
\* First index of the capture whose id is `cid`, 0 when there is none.
FindCapture(caps, cid) ==
    IF \E i \in 1..Len(caps) : caps[i].id = cid
    THEN Min({i \in 1..Len(caps) : caps[i].id = cid})
    ELSE 0

\* del session["captures"][capture_idx]
DeleteAt(caps, idx) == SubSeq(caps, 1, idx - 1) \o SubSeq(caps, idx + 1, Len(caps))

\* Mutation of Renumber: the ids stay as they were.
KeepIds(caps) == caps

\* for i, cap in enumerate(captures): cap["id"] = i + 1
Renumber(caps) == [i \in 1..Len(caps) |-> [caps[i] EXCEPT !.id = i]]

\* open_session: double click on a row of the history list.
OpenSession ==
    /\ app = "running"
    /\ Cardinality(editors) < MaxEditors
    /\ \E i \in 1..Len(history_tree) :
        \E j \in 1..Len(history_sessions) :
            /\ heap[history_sessions[j]].id = history_tree[i]
            /\ \A k \in 1..(j - 1) : heap[history_sessions[k]].id # history_tree[i]
            /\ editors' = editors \cup
                  {[session |-> history_sessions[j],
                    rows |-> Len(heap[history_sessions[j]].captures)]}
    /\ op' = "editor_opened"
    /\ UNCHANGED <<app, dialog_vars, now, ui_vars, heap, history_sessions, history_tree, disk_vars,
                   key_vars, nextId>>

\* The user closes an editor window.
CloseEditor ==
    /\ \E e \in editors :
        /\ editors' = editors \ {e}
        /\ heap' = Collect(heap, Roots(current_session, history_sessions, editors'))
    /\ op' = "editor_closed"
    /\ UNCHANGED <<app, dialog_vars, now, ui_vars, history_sessions, history_tree, disk_vars,
                   key_vars, nextId>>

\* os.remove(path): the file is gone unless the call fails.
os_remove(files, path, del) == IF del = "ok" THEN files \ {path} ELSE files

\* The deletion proper, after os.remove ended with outcome del.
remove_capture(e, idx, sv, del) ==
    LET sess == heap[e.session]
        caps == Renumber(DeleteAt(sess.captures, idx))
        s2   == [sess EXCEPT !.captures = caps]
    IN /\ img_files' = os_remove(img_files, sess.captures[idx].image_path, del)
       /\ heap' = [heap EXCEPT ![e.session] = s2]
       /\ editors' = (editors \ {e}) \cup {[e EXCEPT !.rows = Len(caps)]}
       /\ records' = save_session(records, s2, sv)
       /\ op' = IF sv = "ok" THEN "capture_deleted" ELSE "capture_deleted_unsaved"

\* Mutation of RemoveFailed: the failure is not noticed.
RemoveIgnored(del) == FALSE

\* A failure of os.remove ends the handler.
RemoveFailed(del) == del # "ok"

\* handle_capture_operation, right half of the action column of row `row`,
\* answered with yes: delete a capture.
delete_capture(env, e, row) ==
    LET sess == heap[e.session]
        idx  == FindCapture(sess.captures, row)
    IN IF idx = 0 THEN
           /\ op' = "delete_capture_no_target"
           /\ UNCHANGED <<heap, editors, records, img_files>>
       ELSE IF sess.captures[idx].image_path \in img_files THEN
           \E del \in env.del :
               IF RemoveFailed(del) THEN
                   /\ op' = "delete_capture_failed"
                   /\ UNCHANGED <<heap, editors, records, img_files>>
               ELSE \E sv \in env.sv : remove_capture(e, idx, sv, del)
       ELSE \E sv \in env.sv : remove_capture(e, idx, sv, "ok")

DeleteCapture(env) ==
    /\ \E e \in editors : \E row \in 1..e.rows : delete_capture(env, e, row)
    /\ UNCHANGED <<app, dialog_vars, now, ui_vars, history_sessions, history_tree, dirs, key_vars,
                   nextId>>

\* ------------------------------------------------------------- session delete
\* Index of the first session of the history whose id is sid, 0 when none.
FindSession(h, hist, sid) ==
    IF \E i \in 1..Len(hist) : h[hist[i]].id = sid
    THEN Min({i \in 1..Len(hist) : h[hist[i]].id = sid})
    ELSE 0

\* The image files directly under directory d.
FilesIn(files, d) == {f \in files : f.dir = d}

\* What a failed removal of directory d may leave of its files: the loop of
\* os.remove stops anywhere, or os.rmdir fails after it.
Leftovers(files, d) == SUBSET FilesIn(files, d)

\* delete_session_by_id: the record file, then the image directory, then the
\* history list; each removal that raises ends the function.
delete_session_by_id(env, sid, eds) ==
    LET idx == FindSession(heap, history_sessions, sid)
        hist == DeleteAt(history_sessions, idx)
        kept == Collect(heap, Roots(current_session, history_sessions, eds))
    IN IF idx = 0 THEN
           /\ op' = "delete_not_found"
           /\ heap' = kept
           /\ UNCHANGED <<history_sessions, history_tree, disk_vars>>
       ELSE
           \/ /\ records[sid].kind # "none"
              /\ \E del \in env.del \ {"ok"} :
                    /\ op' = "delete_record_failed"
                    /\ heap' = kept
                    /\ UNCHANGED <<history_sessions, history_tree, disk_vars>>
           \/ /\ records[sid].kind = "none" \/ "ok" \in env.del
              /\ records' = [records EXCEPT ![sid] = NoFile]
              /\ \/ /\ sid \in dirs
                    /\ \E del \in env.del \ {"ok"} : \E left \in Leftovers(img_files, sid) :
                          /\ img_files' = (img_files \ FilesIn(img_files, sid)) \cup left
                          /\ op' = "delete_images_failed"
                          /\ heap' = kept
                          /\ UNCHANGED <<history_sessions, history_tree, dirs>>
                 \/ /\ sid \notin dirs \/ "ok" \in env.del
                    /\ img_files' = img_files \ FilesIn(img_files, sid)
                    /\ dirs' = dirs \ {sid}
                    /\ history_sessions' = hist
                    /\ history_tree' = update_history_list(heap, hist).tree
                    /\ heap' = Collect(heap, Roots(current_session, hist, eds))
                    /\ op' = "session_deleted"

\* delete_session: "delete" in the menu of a row of the history list,
\* answered with yes.
DeleteSession(env) ==
    /\ app = "running"
    /\ \E i \in 1..Len(history_tree) :
          IF FindSession(heap, history_sessions, history_tree[i]) = 0 THEN
              /\ op' = "delete_no_row"
              /\ UNCHANGED <<heap, history_sessions, history_tree, disk_vars>>
          ELSE delete_session_by_id(env, history_tree[i], editors)
    /\ UNCHANGED <<app, dialog_vars, now, ui_vars, editors, key_vars, nextId>>

\* open_editor_window.discard_operation, answered with yes: the session is
\* deleted by id and the editor window is destroyed, whatever the outcome.
DiscardSession(env) ==
    /\ \E e \in editors :
          /\ delete_session_by_id(env, heap[e.session].id, editors \ {e})
          /\ editors' = editors \ {e}
    /\ UNCHANGED <<app, dialog_vars, now, ui_vars, key_vars, nextId>>

\* ------------------------------------------------------------- specification
\* The whole tool under the environment env.
NextIn(env) ==
    \/ StartCapture(env)
    \/ StopCapture(env)
    \/ HotkeyPress
    \/ ListenerTake(env)
    \/ ListenerAgain(env)
    \/ PreviewCancel
    \/ PreviewConfirm(env)
    \/ OpenSession
    \/ CloseEditor
    \/ DeleteCapture(env)

Next == NextIn(FullEnv)

Spec == Init /\ [][Next]_vars

\* ------------------------------------------------------------- deleting sessions
\* An environment in which the write of a record file and the removal of a
\* file or directory may fail.
DeleteEnv ==
    [names |-> {" A "}, descs |-> {"d"}, texts |-> {"d"}, mk |-> {"ok"},
     hk |-> {"ok"}, rm |-> {"ok"}, grab |-> {"ok"}, img |-> {"ok"},
     sv |-> {"ok", "fail"}, del |-> {"ok", "fail"}]

\* Capture sessions, the history list and the editor with its discard button.
NextDelete ==
    \/ StartCapture(DeleteEnv)
    \/ StopCapture(DeleteEnv)
    \/ HotkeyPress
    \/ ListenerTake(DeleteEnv)
    \/ PreviewCancel
    \/ PreviewConfirm(DeleteEnv)
    \/ OpenSession
    \/ CloseEditor
    \/ DeleteSession(DeleteEnv)
    \/ DiscardSession(DeleteEnv)

SpecDelete == Init /\ [][NextDelete]_vars

\* ------------------------------------------------------------- editing sessions
\* rename_session: session["name"] = new_name.strip()
Renamed(s, name) == [s EXCEPT !.name = Strip(name)]

\* rename_session on row i of the history list.
rename_session(env, i) ==
    LET j == FindSession(heap, history_sessions, history_tree[i])
    IN IF j = 0 THEN
           /\ op' = "rename_no_session"
           /\ UNCHANGED <<heap, history_tree, records>>
       ELSE \E name \in env.names :
           IF NameMissing(name) THEN
               /\ op' = "rename_refused"
               /\ UNCHANGED <<heap, history_tree, records>>
           ELSE \E sv \in env.sv :
               LET ref == history_sessions[j]
                   s2  == Renamed(heap[ref], name)
                   h2  == [heap EXCEPT ![ref] = s2]
               IN /\ heap' = h2
                  /\ records' = save_session(records, s2, sv)
                  /\ history_tree' = update_history_list(h2, history_sessions).tree
                  /\ op' = "renamed"

RenameSession(env) ==
    /\ app = "running"
    /\ \E i \in 1..Len(history_tree) : rename_session(env, i)
    /\ UNCHANGED <<app, now, ui_vars, history_sessions, editors, img_files, dirs,
                   key_vars, nextId, dialog_vars>>

\* Mutation of SessionInfo: the session is built anew around the two fields.
InfoOnly(s, name, desc) == NewSession(s.id, Strip(name), Strip(desc), s.start_time)

\* save_session_info: name and description as they stand in the entries,
\* stripped.
SessionInfo(s, name, desc) == [s EXCEPT !.name = Strip(name), !.description = Strip(desc)]

\* save_session_info of the editor window e.
save_session_info(env, e) ==
    \E name \in env.names \ {"<cancel>"}, desc \in env.descs \ {"<cancel>"},
       sv \in env.sv :
        LET s2 == SessionInfo(heap[e.session], name, desc)
            h2 == [heap EXCEPT ![e.session] = s2]
        IN /\ heap' = h2
           /\ records' = save_session(records, s2, sv)
           /\ history_tree' = update_history_list(h2, history_sessions).tree
           /\ op' = "info_saved"

SaveSessionInfo(env) ==
    /\ \E e \in editors : save_session_info(env, e)
    /\ UNCHANGED <<app, now, ui_vars, history_sessions, editors, img_files, dirs,
                   key_vars, nextId, dialog_vars>>

\* target_capture["description"] = new_desc
Described(caps, idx, text) ==
    [caps EXCEPT ![idx].description = [auto |-> 0, text |-> text]]

\* handle_capture_operation, left half of the action column of row `row`:
\* edit the description of a capture.
edit_description(env, e, row) ==
    LET sess == heap[e.session]
        idx  == FindCapture(sess.captures, row)
    IN IF idx = 0 THEN
           /\ op' = "edit_no_target"
           /\ UNCHANGED <<heap, records>>
       ELSE \E text \in env.texts \cup {"<cancel>"} :
           IF text = "<cancel>" THEN
               /\ op' = "edit_cancelled"
               /\ UNCHANGED <<heap, records>>
           ELSE \E sv \in env.sv :
               LET s2 == [sess EXCEPT !.captures = Described(sess.captures, idx, text)]
               IN /\ heap' = [heap EXCEPT ![e.session] = s2]
                  /\ records' = save_session(records, s2, sv)
                  /\ op' = "description_edited"

EditDescription(env) ==
    /\ \E e \in editors : \E row \in 1..e.rows : edit_description(env, e, row)
    /\ UNCHANGED <<app, now, ui_vars, history_sessions, history_tree, editors,
                   img_files, dirs, key_vars, nextId, dialog_vars>>

\* Index of the capture dict `target` in caps, 0 when it is not in the list.
\* A capture dict is known by the key event that made it.
FindTarget(caps, target) ==
    IF \E i \in 1..Len(caps) : caps[i].trig = target
    THEN Min({i \in 1..Len(caps) : caps[i].trig = target})
    ELSE 0

\* preview_screenshot up to the opening of the preview window: double click
\* on row `row` of the editor window e.
preview_screenshot(e, row) ==
    LET caps == heap[e.session].captures
        idx  == FindCapture(caps, row)
    IN IF idx = 0 \/ (idx # 0 /\ caps[idx].image_path \notin img_files) THEN
           /\ op' = "reedit_no_image"
           /\ UNCHANGED reedit
       ELSE
           /\ reedit' = [open |-> TRUE, session |-> e.session,
                         target |-> caps[idx].trig,
                         path |-> caps[idx].image_path,
                         original |-> caps[idx].description]
           /\ op' = "reedit_preview"

ReEditOpen ==
    /\ ~reedit.open
    /\ \E e \in editors : \E row \in 1..e.rows : preview_screenshot(e, row)
    /\ UNCHANGED <<app, now, ui_vars, mem_vars, disk_vars, key_vars, nextId, set_vars,
                   preview_vars>>

\* preview_screenshot after the preview returned a result: the image is
\* written to the path of the capture, the description is replaced if it
\* differs, the session is saved.  `text` is the description the preview
\* returns, "<kept>" when it is the one the preview was opened with.
reedit_save(path, text, img, sv) ==
    LET sess == heap[reedit.session]
        idx  == FindTarget(sess.captures, reedit.target)
        desc == IF text = "<kept>" THEN reedit.original
                                   ELSE [auto |-> 0, text |-> text]
        s2   == IF idx # 0 /\ desc # reedit.original
                THEN [sess EXCEPT !.captures = Described(sess.captures, idx, text)]
                ELSE sess
    IN IF SaveFailed(img) THEN
           /\ op' = "reedit_save_failed"
           /\ UNCHANGED <<heap, records, img_files>>
       ELSE
           /\ img_files' = write_image(img_files, path, img)
           /\ heap' = [heap EXCEPT ![reedit.session] = s2]
           /\ records' = save_session(records, s2, sv)
           /\ op' = "reedit_saved"

ReEditConfirm(env) ==
    /\ reedit.open
    /\ reedit' = NoReEdit
    /\ \E text \in env.texts \cup {"<kept>"}, img \in env.img, sv \in env.sv :
          reedit_save(reedit.path, text, img, sv)
    /\ UNCHANGED <<app, now, ui_vars, history_sessions, history_tree, editors, dirs,
                   key_vars, nextId, set_vars, preview_vars>>

\* The re-edit preview is cancelled: result None.
ReEditCancel ==
    /\ reedit.open
    /\ reedit' = NoReEdit
    /\ op' = "reedit_cancelled"
    /\ UNCHANGED <<app, now, ui_vars, mem_vars, disk_vars, key_vars, nextId, set_vars,
                   preview_vars>>

\* The editor and the history list next to capture sessions.
SessionEnv ==
    [names |-> {" A "}, descs |-> {"d"}, texts |-> {"d"}, mk |-> {"ok"},
     hk |-> {"ok"}, rm |-> {"ok"}, grab |-> {"ok"}, img |-> {"ok"},
     sv |-> {"ok"}, del |-> {"ok"}]

EditorEnv ==
    [names |-> {"<cancel>", "", " B "}, descs |-> {"d"}, texts |-> {"e"},
     mk |-> {"ok"}, hk |-> {"ok"}, rm |-> {"ok"}, grab |-> {"ok"}, img |-> {"ok", "fail"},
     sv |-> {"ok", "fail"}, del |-> {"ok"}]

\* The history list and the editor: every dialog is answered, every write
\* succeeds.
HistoryEnv ==
    [names |-> {"", " B "}, descs |-> {"d"}, texts |-> {"e"},
     mk |-> {"ok"}, hk |-> {"ok"}, rm |-> {"ok"}, grab |-> {"ok"}, img |-> {"ok"},
     sv |-> {"ok"}, del |-> {"ok"}]

NextEditor ==
    \/ StartCapture(SessionEnv)
    \/ StopCapture(SessionEnv)
    \/ HotkeyPress
    \/ ListenerTake(SessionEnv)
    \/ PreviewConfirm(SessionEnv)
    \/ OpenSession
    \/ CloseEditor
    \/ DeleteCapture(HistoryEnv)
    \/ RenameSession(HistoryEnv)
    \/ SaveSessionInfo(HistoryEnv)
    \/ EditDescription(HistoryEnv)

SpecEditor == Init /\ [][NextEditor]_vars

\* Capture sessions and the editor with its double click on a capture.  The
\* editor window stays while the preview of the double click is open.
NextReEdit ==
    \/ StartCapture(SessionEnv)
    \/ StopCapture(SessionEnv)
    \/ HotkeyPress
    \/ ListenerTake(SessionEnv)
    \/ PreviewConfirm(SessionEnv)
    \/ OpenSession
    \/ (~reedit.open /\ CloseEditor)
    \/ DeleteCapture(EditorEnv)
    \/ ReEditOpen
    \/ ReEditConfirm(EditorEnv)
    \/ ReEditCancel

SpecReEdit == Init /\ [][NextReEdit]_vars

\* ------------------------------------------------------------- interrupted writes
\* An environment in which the write of a record file may fail before or
\* after the file has been opened.
EditEnv ==
    [names |-> {" A "}, descs |-> {"d"}, texts |-> {"d"}, mk |-> {"ok"},
     hk |-> {"ok"}, rm |-> {"ok"}, grab |-> {"ok"}, img |-> {"ok"},
     sv |-> {"ok", "fail", "cut"}, del |-> {"ok"}]

\* Capture sessions and the editor with its delete column.
NextEdit ==
    \/ StartCapture(EditEnv)
    \/ StopCapture(EditEnv)
    \/ HotkeyPress
    \/ ListenerTake(EditEnv)
    \/ PreviewConfirm(EditEnv)
    \/ OpenSession
    \/ CloseEditor
    \/ DeleteCapture(EditEnv)

SpecEdit == Init /\ [][NextEdit]_vars

\* ------------------------------------------------------------- startup
\* start_time values found in record files written by earlier runs.
LegacyTimes == {1, 2}

\* What a file <sid>.json left by an earlier run may hold: nothing readable,
\* a session record, or a record that was cut so that a key is missing.
LegacyFiles(sid) ==
    {NoFile, GarbageFile}
    \cup {JsonFile([NewSession(sid, "A", "", t) EXCEPT !.end_time = t, !.absent = a]) :
            t \in LegacyTimes, a \in {{}, {"captures"}, {"start_time"}}}

\* The process before __init__ has run, on any sessions directory.
InitLoad ==
    /\ app = "init"
    /\ now = 1
    /\ is_capturing = FALSE
    /\ hotkey_obj = None
    /\ current_session_id = None
    /\ current_session = 1
    /\ images_dir = None
    /\ start_time = 0
    /\ heap = [r \in Refs |-> IF r = 1 THEN EmptySession ELSE Free]
    /\ history_sessions = <<>>
    /\ history_tree = <<>>
    /\ editors = {}
    /\ records \in {f \in [Sids -> UNION {LegacyFiles(sid) : sid \in Sids}] :
                        \A sid \in Sids : f[sid] \in LegacyFiles(sid)}
    /\ img_files = {}
    /\ dirs = {}
    /\ registered = {}
    /\ combos = [h \in Sids |-> <<>>]
    /\ queue = <<>>
    /\ todo = 0
    /\ event = 0
    /\ handlers = <<>>
    /\ trig = 0
    /\ nextId = 0
    /\ op = "init"
    /\ NoDialogs

\* __init__: load_history_sessions (line 445), then create_main_interface,
\* which ends with update_history_list (line 538).  Neither call is guarded,
\* so an exception out of update_history_list ends the constructor.
Startup ==
    /\ app = "init"
    /\ \E order \in Listings(RecordFiles(records)) :
        LET ld == LoadHistory(heap, {current_session}, records, order)
            ut == update_history_list(ld.heap, ld.hist)
        IN /\ history_sessions' = ld.hist
           /\ heap' = ld.heap
           /\ history_tree' = ut.tree
           /\ app' = IF ut.exc THEN "crashed" ELSE "running"
           /\ op' = IF ld.err THEN "load_error" ELSE "loaded"
    /\ UNCHANGED <<now, ui_vars, editors, disk_vars, key_vars, nextId, dialog_vars>>

NextLoad == Startup

SpecLoad == InitLoad /\ [][NextLoad]_vars

\* ------------------------------------------------------------- a session on an old store
\* An environment in which only the write of a record file may fail.
StoreEnv ==
    [names |-> {" A "}, descs |-> {"d"}, texts |-> {"d"}, mk |-> {"ok"},
     hk |-> {"ok"}, rm |-> {"ok"}, grab |-> {"ok"}, img |-> {"ok"},
     sv |-> {"ok", "fail"}, del |-> {"ok"}]

\* Startup on any sessions directory, then one capture session.
NextStore ==
    \/ Startup
    \/ StartCapture(StoreEnv)
    \/ StopCapture(StoreEnv)
    \/ HotkeyPress
    \/ ListenerTake(StoreEnv)
    \/ PreviewCancel
    \/ PreviewConfirm(StoreEnv)

SpecStore == InitLoad /\ [][NextStore]_vars

\* ------------------------------------------------------------- hotkey setting
\* A key combination is the sequence of the parts between its '+' signs.
\* The parts a run types: names of keys, an empty part, and an upper case
\* letter.
Modifiers     == {"ctrl", "alt", "shift"}      \* valid_modifiers
Letters       == {"o", "s"}
Digits        == {"5"}
FunctionKeys  == {"f5"}                        \* f1 .. f12
Typed         == {"ctrl", "S", "5", "f5", "f13", "esc", ""}
MaxParts      == 2                             \* parts of a typed combination

\* str.lower() of a part.
ToLower(part) == IF part = "S" THEN "s" ELSE part

\* part.isalpha() and len(part) == 1
IsLetter(part) == part \in Letters

\* part.isdigit() and len(part) == 1
IsDigit(part) == part \in Digits

\* part.startswith('f') and part[1:].isdigit()
IsFNumber(part) == part \in {"f5", "f13"}

\* confirm_hotkey: the test a part has to pass; an empty part is passed over.
PartAccepted(part) ==
    part = "" \/ part \in Modifiers \/ IsLetter(part) \/ IsDigit(part) \/ IsFNumber(part)

\* save_hotkey_config: the file holds the hotkey unless the write fails.
save_hotkey_config(file, hk, sv) == IF sv = "ok" THEN hk ELSE file

\* confirm_hotkey with the entry holding `text`; sv is the outcome of the
\* write of the config file.
confirm_hotkey(text, sv) ==
    LET new_hotkey == [i \in 1..Len(text) |-> ToLower(text[i])]
    IN IF new_hotkey = <<"">> THEN
           /\ op' = "hotkey_empty"
           /\ UNCHANGED <<hotkey, config_file>>
       ELSE IF \E i \in 1..Len(new_hotkey) : ~PartAccepted(new_hotkey[i]) THEN
           /\ op' = "hotkey_invalid"
           /\ UNCHANGED <<hotkey, config_file>>
       ELSE
           /\ hotkey' = new_hotkey
           /\ config_file' = save_hotkey_config(config_file, new_hotkey, sv)
           /\ op' = "hotkey_set"

\* What the user may leave in the entry of the dialog.
Entries == UNION {[1..k -> Typed] : k \in 1..MaxParts}

\* set_hotkey: refused while capturing, else the dialog, confirmed with one
\* of the entries `texts`.
set_hotkey(texts, svs) ==
    /\ app = "running"
    /\ IF is_capturing THEN
          /\ op' = "hotkey_refused"
          /\ UNCHANGED <<hotkey, config_file>>
       ELSE \E text \in texts, sv \in svs : confirm_hotkey(text, sv)
    /\ UNCHANGED <<app, now, ui_vars, mem_vars, disk_vars, key_vars, nextId, preview_vars,
                   edit_vars>>

SetHotkey == set_hotkey(Entries, {"ok", "fail"})

NextSetting == SetHotkey

SpecSetting == Init /\ [][NextSetting]_vars

\* Sessions whose hotkey registration or removal may fail.
ArmEnv ==
    [names |-> {" A "}, descs |-> {"d"}, texts |-> {"d"}, mk |-> {"ok"},
     hk |-> {"ok", "err"}, rm |-> {"ok", "fail"}, grab |-> {"ok"}, img |-> {"ok"},
     sv |-> {"ok"}, del |-> {"ok"}]

\* What is typed into the dialog between sessions.
ArmEntries == {<<"ctrl", "S">>, <<"f5">>, <<"esc">>}

\* set_hotkey with these entries.
ChangeHotkey == set_hotkey(ArmEntries, {"ok"})

\* Setting the hotkey between and during capture sessions.
NextArm ==
    \/ StartCapture(ArmEnv)
    \/ StopCapture(ArmEnv)
    \/ HotkeyPress
    \/ ListenerTake(ArmEnv)
    \/ PreviewConfirm(ArmEnv)
    \/ ChangeHotkey

SpecArm == Init /\ [][NextArm]_vars

\* ------------------------------------------------------------- preview window
\* Scales and canvas positions are Python floats.  They are modelled by exact
\* fractions n/d in lowest terms with d > 0; the rounding of the binary
\* floating point operations is not modelled.
MaxWheel == 3         \* wheel events in one run

RECURSIVE GCD(_, _)
GCD(a, b) == IF b = 0 THEN a ELSE GCD(b, a % b)

Abs(a) == IF a < 0 THEN -a ELSE a

Q(n, d) == LET g == GCD(Abs(n), d) IN [n |-> n \div g, d |-> d \div g]

QSub(a, b) ==
    LET g == GCD(a.d, b.d)
    IN Q(a.n * (b.d \div g) - b.n * (a.d \div g), (a.d \div g) * b.d)

QMul(a, b) ==
    LET g1 == GCD(Abs(a.n), b.d)
        g2 == GCD(Abs(b.n), a.d)
    IN Q((a.n \div g1) * (b.n \div g2), (a.d \div g2) * (b.d \div g1))

QDiv(a, b) == QMul(a, [n |-> b.d, d |-> b.n])          \* for b > 0

QLess(a, b) ==
    LET g == GCD(a.d, b.d)
    IN a.n * (b.d \div g) < b.n * (a.d \div g)

QMin(a, b) == IF QLess(b, a) THEN b ELSE a
QMax(a, b) == IF QLess(a, b) THEN b ELSE a

\* int(x): the integer part, towards zero.
QInt(a) == IF a.n >= 0 THEN a.n \div a.d ELSE -((-a.n) \div a.d)

\* canvas.original_width and canvas.original_height: the size of the screenshot.
OrigW == 20
OrigH == 10

\* The bounds of the scale and the factor of one wheel step.
MaxScale  == Q(5, 1)
MinScale  == Q(1, 10)
ZoomStep  == Q(11, 10)

\* canvas.resized_image.width and .height: int(original * scale).
ResizedW(c) == QInt(QMul(Q(OrigW, 1), c.scale))
ResizedH(c) == QInt(QMul(Q(OrigH, 1), c.scale))

\* Mutation of NewScale: the step without the bounds.
Unclamped(s, zoom_in) == IF zoom_in THEN QMul(s, ZoomStep) ELSE QDiv(s, ZoomStep)

\* new_scale = min(scale * 1.1, 5.0) or max(scale / 1.1, 0.1)
NewScale(s, zoom_in) ==
    IF zoom_in THEN QMin(QMul(s, ZoomStep), MaxScale)
               ELSE QMax(QDiv(s, ZoomStep), MinScale)

\* Mutation of NewPos: the offset keeps the distance the pointer had.
SameRel(m, orig_rel, s) == QSub(m, orig_rel)

\* new_x_pos = mouse_x - orig_rel_x * new_scale
NewPos(m, orig_rel, s) == QSub(m, QMul(orig_rel, s))

\* on_mousewheel of the capture preview, pointer at canvas point p.
on_mousewheel(p, zoom_in) ==
    LET mouse_x == Q(p[1], 1)
        mouse_y == Q(p[2], 1)
        rel_x   == QSub(mouse_x, canvas.x_pos)
        rel_y   == QSub(mouse_y, canvas.y_pos)
        inside  == /\ rel_x.n >= 0 /\ QLess(rel_x, Q(ResizedW(canvas), 1))
                   /\ rel_y.n >= 0 /\ QLess(rel_y, Q(ResizedH(canvas), 1))
        new_scale == NewScale(canvas.scale, zoom_in)
        orig_rel_x == QDiv(rel_x, canvas.scale)
        orig_rel_y == QDiv(rel_y, canvas.scale)
    IN IF inside THEN
           /\ canvas' = [scale |-> new_scale,
                         x_pos |-> NewPos(mouse_x, orig_rel_x, new_scale),
                         y_pos |-> NewPos(mouse_y, orig_rel_y, new_scale)]
           /\ op' = IF zoom_in THEN "wheel_in" ELSE "wheel_out"
       ELSE
           /\ op' = "wheel_outside"
           /\ UNCHANGED canvas

\* zoom_image of the editor's image viewer.
zoom_image(zoom_in) ==
    /\ scale_factor' = NewScale(scale_factor, zoom_in)
    /\ op' = IF zoom_in THEN "viewer_in" ELSE "viewer_out"

\* Canvas points the pointer events of a run are drawn from.
Pts == {<<0, 0>>, <<3, 0>>, <<10, 9>>, <<25, 9>>}

MaxPoints == 3        \* points of one stroke
MaxPaths  == 1        \* strokes of one preview
MaxLabels == 1        \* text labels of one preview

\* on_mouse_down, on_mouse_move: the pointer is on the displayed image,
\* borders included.
OnImage(p) ==
    /\ ~QLess(Q(p[1], 1), canvas.x_pos)
    /\ ~QLess(QSub(Q(ResizedW(canvas), 1), QSub(Q(p[1], 1), canvas.x_pos)), Q(0, 1))
    /\ ~QLess(Q(p[2], 1), canvas.y_pos)
    /\ ~QLess(QSub(Q(ResizedH(canvas), 1), QSub(Q(p[2], 1), canvas.y_pos)), Q(0, 1))

\* int((x - canvas.x_pos) / canvas.scale), the same for y.
ToImage(p) ==
    <<QInt(QDiv(QSub(Q(p[1], 1), canvas.x_pos), canvas.scale)),
      QInt(QDiv(QSub(Q(p[2], 1), canvas.y_pos), canvas.scale))>>

Lower(a, b) == IF a < b THEN a ELSE b
Higher(a, b) == IF a < b THEN b ELSE a

\* Mutation of ClampHigh: the coordinate is taken as it is.
Unbounded(limit, v) == v

\* min(canvas.original_width, ...), min(canvas.original_height, ...)
ClampHigh(limit, v) == Lower(limit, v)

\* max(0, ...)
ClampLow(v) == Higher(0, v)

\* switch_mode
SwitchMode(mode) ==
    /\ current_mode' = mode
    /\ op' = "mode"
    /\ UNCHANGED <<canvas, rect_id, start_xy, drawing, current_line, selected_region,
                   annotation_paths, text_annotations>>

\* Answers to the askstring of the text tool.
TextInputs == {"<cancel>", " ", " t "}

\* on_mouse_down in text mode: a label at the image point under p, when a
\* text was given.
add_text(p, text) ==
    IF NameMissing(text)
    THEN text_annotations
    ELSE Append(text_annotations, <<ToImage(p)[1], ToImage(p)[2], Strip(text)>>)

\* on_mouse_down at canvas point p.
on_mouse_down(p) ==
    IF OnImage(p) THEN
        /\ start_xy' = p
        /\ rect_id' = IF current_mode = "select" THEN TRUE ELSE rect_id
        /\ drawing' = IF current_mode = "draw" THEN TRUE ELSE drawing
        /\ current_line' = IF current_mode = "draw" THEN <<p>> ELSE current_line
        /\ IF current_mode = "text"
           THEN \E text \in TextInputs : text_annotations' = add_text(p, text)
           ELSE UNCHANGED text_annotations
        /\ op' = "mouse_down"
        /\ UNCHANGED <<canvas, current_mode, selected_region, annotation_paths>>
    ELSE
        /\ op' = "mouse_down_outside"
        /\ UNCHANGED <<canvas, current_mode, rect_id, start_xy, drawing, current_line,
                       selected_region, annotation_paths, text_annotations>>

\* on_mouse_move to canvas point p.
on_mouse_move(p) ==
    /\ current_line' = IF current_mode = "draw" /\ drawing /\ OnImage(p)
                       THEN Append(current_line, p) ELSE current_line
    /\ op' = "mouse_move"
    /\ UNCHANGED <<canvas, current_mode, rect_id, start_xy, drawing, selected_region,
                   annotation_paths, text_annotations>>

\* on_mouse_up in select mode: the rectangle from start_xy to p.
select_region(p) ==
    LET x1 == Lower(start_xy[1], p[1])
        y1 == Lower(start_xy[2], p[2])
        x2 == Higher(start_xy[1], p[1])
        y2 == Higher(start_xy[2], p[2])
        o1 == ToImage(<<x1, y1>>)
        o2 == ToImage(<<x2, y2>>)
        orig_x1 == ClampLow(o1[1])
        orig_y1 == ClampLow(o1[2])
        orig_x2 == ClampHigh(OrigW, o2[1])
        orig_y2 == ClampHigh(OrigH, o2[2])
    IN IF (x2 - x1) > 5 /\ (y2 - y1) > 5 /\ orig_x2 > orig_x1 /\ orig_y2 > orig_y1
       THEN /\ selected_region' = <<orig_x1, orig_y1, orig_x2, orig_y2>>
            /\ op' = "region_selected"
       ELSE /\ op' = "region_rejected"
            /\ UNCHANGED selected_region

\* on_mouse_up at canvas point p.
on_mouse_up(p) ==
    IF current_mode = "select" /\ rect_id THEN
        /\ select_region(p)
        /\ rect_id' = FALSE
        /\ UNCHANGED <<canvas, current_mode, start_xy, drawing, current_line,
                       annotation_paths, text_annotations>>
    ELSE IF current_mode = "draw" /\ drawing THEN
        /\ annotation_paths' =
              IF Len(current_line) > 1
              THEN Append(annotation_paths,
                          [i \in 1..Len(current_line) |-> ToImage(current_line[i])])
              ELSE annotation_paths
        /\ drawing' = FALSE
        /\ current_line' = <<>>
        /\ op' = "stroke_end"
        /\ UNCHANGED <<canvas, current_mode, rect_id, start_xy, selected_region,
                       text_annotations>>
    ELSE
        /\ op' = "mouse_up"
        /\ UNCHANGED <<canvas, current_mode, rect_id, start_xy, drawing, current_line,
                       selected_region, annotation_paths, text_annotations>>

\* on_confirm: the filter `orig_x1 <= px <= orig_x2 and orig_y1 <= py <= orig_y2`.
InRegion(pt, r) == r[1] <= pt[1] /\ pt[1] <= r[3] /\ r[2] <= pt[2] /\ pt[2] <= r[4]

\* on_confirm: adjusted_points of one stroke.
AdjustedPoints(points, r) ==
    LET In(pt) == InRegion(pt, r)
        kept   == SelectSeq(points, In)
    IN [i \in 1..Len(kept) |-> <<kept[i][1] - r[1], kept[i][2] - r[2]>>]

\* The draw.line calls for one list of points.
Lines(points) == [i \in 1..(Len(points) - 1) |-> <<points[i], points[i + 1]>>]

\* Mutation of AdjustedLabels: the labels of the region, where they were put.
KeptLabels(labels, r) ==
    LET In(l) == InRegion(<<l[1], l[2]>>, r)
    IN SelectSeq(labels, In)

\* on_confirm: the draw.text calls with a crop region.
AdjustedLabels(labels, r) ==
    LET kept == KeptLabels(labels, r)
    IN [i \in 1..Len(kept) |-> <<kept[i][1] - r[1], kept[i][2] - r[2], kept[i][3]>>]

\* on_confirm: the crop box and the lines, stroke by stroke, and the labels
\* drawn on the final image.
on_confirm ==
    /\ result' = [done |-> TRUE, crop |-> selected_region,
                  lines |-> [k \in 1..Len(annotation_paths) |->
                      IF selected_region # <<>>
                      THEN Lines(AdjustedPoints(annotation_paths[k], selected_region))
                      ELSE Lines(annotation_paths[k])],
                  labels |-> IF selected_region # <<>>
                             THEN AdjustedLabels(text_annotations, selected_region)
                             ELSE text_annotations]
    /\ op' = "confirmed"

\* Everything outside the preview window and the image viewer.
main_vars == <<app, now, ui_vars, mem_vars, disk_vars, key_vars, nextId, set_vars,
               edit_vars>>

\* Scales the preview may have reached: the image as first shown, and values
\* near and at the bounds, which repeated wheel steps lead to.
Scales == {Q(1, 1), Q(1, 2), Q(1, 8), Q(1, 10), Q(9, 2), Q(5, 1)}

\* A preview window is open on a screenshot; its image has been zoomed and
\* moved by earlier wheel events.
InitPreview ==
    /\ NoSessions
    /\ hotkey = DEFAULT_HOTKEY
    /\ config_file = <<>>
    /\ canvas \in [scale : Scales, x_pos : {Q(0, 1), Q(2, 1)}, y_pos : {Q(0, 1)}]
    /\ scale_factor = canvas.scale
    /\ current_mode = "select"
    /\ rect_id = FALSE
    /\ start_xy = <<0, 0>>
    /\ drawing = FALSE
    /\ current_line = <<>>
    /\ selected_region = <<>>
    /\ annotation_paths = <<>>
    /\ text_annotations = <<>>
    /\ result = Pending
    /\ wheels = 0
    /\ reedit = NoReEdit

Wheel ==
    /\ ~result.done
    /\ wheels < MaxWheel
    /\ wheels' = wheels + 1
    /\ \E p \in Pts, zoom_in \in BOOLEAN : on_mousewheel(p, zoom_in)
    /\ UNCHANGED <<main_vars, current_mode, rect_id, start_xy, drawing, current_line,
                   selected_region, annotation_paths, text_annotations, result, scale_factor>>

ViewerWheel ==
    /\ wheels < MaxWheel
    /\ wheels' = wheels + 1
    /\ \E zoom_in \in BOOLEAN : zoom_image(zoom_in)
    /\ UNCHANGED <<main_vars, canvas, current_mode, rect_id, start_xy, drawing,
                   current_line, selected_region, annotation_paths, text_annotations, result>>

ToolButton ==
    /\ ~result.done
    /\ \E mode \in {"select", "draw"} : SwitchMode(mode)
    /\ UNCHANGED <<main_vars, result, scale_factor, wheels>>

MouseDown ==
    /\ ~result.done
    /\ current_mode = "draw" => Len(annotation_paths) < MaxPaths
    /\ current_mode = "text" => Len(text_annotations) < MaxLabels
    /\ \E p \in Pts : on_mouse_down(p)
    /\ UNCHANGED <<main_vars, result, scale_factor, wheels>>

MouseMove ==
    /\ ~result.done
    /\ Len(current_line) < MaxPoints
    /\ \E p \in Pts : on_mouse_move(p)
    /\ UNCHANGED <<main_vars, result, scale_factor, wheels>>

MouseUp ==
    /\ ~result.done
    /\ \E p \in Pts : on_mouse_up(p)
    /\ UNCHANGED <<main_vars, result, scale_factor, wheels>>

\* set_mode('text')
TextButton ==
    /\ ~result.done
    /\ SwitchMode("text")
    /\ UNCHANGED <<main_vars, result, scale_factor, wheels>>

\* clear_annotations
ClearButton ==
    /\ ~result.done
    /\ annotation_paths' = <<>>
    /\ text_annotations' = <<>>
    /\ op' = "cleared"
    /\ UNCHANGED <<main_vars, canvas, current_mode, rect_id, start_xy, drawing,
                   current_line, selected_region, result, scale_factor, wheels>>

ConfirmButton ==
    /\ ~result.done
    /\ on_confirm
    /\ UNCHANGED <<main_vars, canvas, current_mode, rect_id, start_xy, drawing,
                   current_line, selected_region, annotation_paths, text_annotations, scale_factor, wheels>>

\* Zooming in the preview and in the image viewer.
NextZoom ==
    \/ Wheel
    \/ ViewerWheel

SpecZoom == InitPreview /\ [][NextZoom]_vars

\* Selecting, drawing and confirming at the zoom the preview has.
NextPreview ==
    \/ ToolButton
    \/ MouseDown
    \/ MouseMove
    \/ MouseUp
    \/ ConfirmButton

SpecPreview == InitPreview /\ [][NextPreview]_vars

\* A preview window as first shown.
InitLabel ==
    /\ InitPreview
    /\ canvas.scale = Q(1, 1)
    /\ canvas.x_pos = Q(0, 1)

\* Selecting, drawing, labelling, clearing and confirming.
NextLabel ==
    \/ ToolButton
    \/ TextButton
    \/ MouseDown
    \/ MouseMove
    \/ MouseUp
    \/ ClearButton
    \/ ConfirmButton

SpecLabel == InitLabel /\ [][NextLabel]_vars

\* ------------------------------------------------------------- properties
Deleted == {"capture_deleted", "capture_deleted_unsaved"}

Contiguous(caps) == \A i \in 1..Len(caps) : caps[i].id = i

\* C1: after every append and every delete, the ids of the captures of every
\* session dict, and of every session record on disk, are 1..len(captures)
\* in list order.
C1_IdsContiguous ==
    /\ \A r \in Refs : Contiguous(heap[r].captures)
    /\ \A sid \in Sids : Contiguous(records[sid].val.captures)

\* A delete has just renumbered: a capture that was appended as the n-th
\* (its default description says so) now carries a smaller id.
C1_Witness ==
    /\ op \in Deleted
    /\ \E r \in Refs : \E i \in 1..Len(heap[r].captures) :
         heap[r].captures[i].description.auto > heap[r].captures[i].id

\* C2 as stated: a stop of an armed session without captures leaves no record
\* file of that session and no entry of it in the loaded history.
C2_EmptySessionDiscarded ==
    (op = "stop_empty" /\ heap[current_session].captures = <<>>)
        => /\ records[current_session_id].kind = "none"
           /\ \A i \in 1..Len(history_sessions) :
                heap[history_sessions[i]].id # current_session_id

\* C3: while a session is armed no step replaces it (its id, its dict, its
\* image directory) or registers a further hotkey, and a refused start
\* changes nothing of the tool's state, memory or disk.
C3_StartRejectedWhileArmed ==
    [][is_capturing =>
         /\ current_session_id' = current_session_id
         /\ current_session' = current_session
         /\ images_dir' = images_dir
         /\ registered' \subseteq registered
         /\ (op' = "start_rejected"
                => UNCHANGED <<ui_vars, mem_vars, disk_vars, registered>>)]_vars

\* A start was refused on an armed session that already holds a capture.
C3_Witness ==
    /\ op = "start_rejected"
    /\ is_capturing
    /\ heap[current_session].captures # <<>>

\* C4: in every session, in memory and on disk, the capture of an earlier key
\* event precedes the capture of a later one.
InTriggerOrder(caps) ==
    \A i, j \in 1..Len(caps) : caps[i].trig < caps[j].trig => i < j

C6_NoAppendAfterStop ==
    [][(/\ heap[current_session].end_time # NoTime
        /\ records[current_session_id].kind = "json"
        /\ current_session' = current_session
        /\ heap'[current_session].id = heap[current_session].id)
       => Len(heap'[current_session].captures) <= Len(heap[current_session].captures)]_vars

\* Index of the capture that is in old and no longer in new, ids aside.
DeletedIndex(old, new) ==
    Min({i \in 1..Len(old) :
            \/ i > Len(new)
            \/ [new[i] EXCEPT !.id = 0] # [old[i] EXCEPT !.id = 0]})

\* C7: a delete whose os.remove fails changes neither the session dicts, nor
\* the editor's rows, nor the record files, nor the image files; put the
\* other way round, a delete that removes a record leaves no file behind
\* under the removed record's path.
C7_DeleteAbortedOnRemoveFailure ==
    [][/\ (op' = "delete_capture_failed" =>
              UNCHANGED <<heap, editors, records, img_files>>)
       /\ (op' \in Deleted =>
              \A r \in Refs : heap'[r] # heap[r] =>
                 heap[r].captures[DeletedIndex(heap[r].captures,
                                               heap'[r].captures)].image_path
                    \notin img_files')]_vars

\* os.remove has just failed in an editor whose session still has all rows.
C7_Witness ==
    /\ op = "delete_capture_failed"
    /\ \E e \in editors :
         /\ Len(heap[e.session].captures) = e.rows
         /\ \A i \in 1..e.rows : heap[e.session].captures[i].image_path \in img_files

\* C8 as stated: after a delete that removed the file and saved the session,
\* every capture left in the edited session has its image file on disk and
\* the record file equals the session dict.
C8_RemoveCaptureKeepsOthers ==
    op = "capture_deleted" =>
        \A e \in editors :
            /\ \A i \in 1..Len(heap[e.session].captures) :
                 heap[e.session].captures[i].image_path \in img_files
            /\ Contiguous(heap[e.session].captures)
            /\ records[heap[e.session].id] = JsonFile(heap[e.session])

\* C9 as stated: after startup the constructor has not been left by an
\* exception and the history holds no dict that lacks a key.
C9_IncompleteRecordExcluded ==
    app # "init" =>
        /\ app = "running"
        /\ \A i \in 1..Len(history_sessions) : heap[history_sessions[i]].absent = {}

WellFormed(f) == f.kind = "json" /\ f.val.absent = {}

\* C10 as stated: after startup every well-formed record of the directory is
\* in the history, whatever else the directory holds.
C10_MalformedSkippedAlone ==
    app # "init" =>
        \A sid \in Sids : WellFormed(records[sid]) =>
            \E i \in 1..Len(history_sessions) : heap[history_sessions[i]].id = sid

HasStartTime(d) == "start_time" \notin d.absent

\* C11 as stated: after startup the history is ordered by start_time, newest
\* first, whatever the directory holds (records without a start_time aside).
C11_NewestFirst ==
    app # "init" =>
        \A i, j \in 1..Len(history_sessions) :
            (i < j /\ HasStartTime(heap[history_sessions[i]])
                   /\ HasStartTime(heap[history_sessions[j]]))
                => heap[history_sessions[i]].start_time >= heap[history_sessions[j]].start_time

StopOps == {"stop_editor", "stop_empty", "stop_exception"}

\* C12 as stated: when stop has saved the current session and reloaded the
\* history, the history holds a dict equal to the session in every field.
C12_RoundTrip ==
    (/\ op \in StopOps
     /\ records[current_session_id] = JsonFile(json_dump(heap[current_session])))
        => \E i \in 1..Len(history_sessions) :
              heap[history_sessions[i]] = heap[current_session]

HistoryIds(h, hist) == {h[hist[i]].id : i \in 1..Len(hist)}

\* Nothing of session sid is left on disk in the next state.
GoneFromDisk(sid) ==
    /\ records'[sid].kind = "none"
    /\ sid \notin dirs'
    /\ FilesIn(img_files', sid) = {}

\* C13 as stated: a session delete that reports no failure, from the history
\* menu or from the editor's discard button, leaves neither the record file
\* nor the image directory nor its files; a session leaves the history list
\* only together with them; a failed removal keeps the session in the list.
C13_SessionDelete ==
    [][/\ \A e \in editors :
            (e \notin editors' /\ op' \in {"session_deleted", "delete_not_found"})
                => GoneFromDisk(heap[e.session].id)
       /\ (op' = "session_deleted" =>
              \A sid \in HistoryIds(heap, history_sessions)
                            \ HistoryIds(heap', history_sessions') : GoneFromDisk(sid))
       /\ (op' \in {"delete_record_failed", "delete_images_failed"} =>
              history_sessions' = history_sessions)]_vars

HotkeyFailed == {"start_hotkey_denied", "start_hotkey_failed"}

\* C14 as stated: after a start whose hotkey registration failed the tool is
\* not capturing, holds no hotkey handle, no registration is alive and no
\* record of the session has been written.
C14_FailedStartIsIdle ==
    op \in HotkeyFailed =>
        /\ ~is_capturing
        /\ hotkey_obj = None
        /\ registered = {}
        /\ records[current_session_id].kind = "none"

\* C17 as stated: whenever the tool is not capturing it holds no hotkey
\* handle and no registration is alive.
C17_IdleHasNoHotkey ==
    ~is_capturing => (hotkey_obj = None /\ registered = {})

\* C15: a start without a name (empty, blank or cancelled) changes nothing:
\* the tool stays as it was, no id is allocated, no directory is created, no
\* hotkey is registered; every session that a start does allocate has a
\* name that is not empty.
C15_StartNeedsName ==
    [][/\ (op' = "start_no_name" =>
              UNCHANGED <<ui_vars, mem_vars, disk_vars, registered, nextId>>)
       /\ (nextId' # nextId =>
              /\ heap'[current_session'].id = nextId'
              /\ heap'[current_session'].name # "")]_vars

\* A start without a name has just been refused while nothing is armed.
C15_Witness == op = "start_no_name" /\ ~is_capturing /\ nextId > 0

\* C16: a stop while capturing ends with is_capturing false and with
\* end_time and duration set on the current session, whatever remove_hotkey
\* and the write of the record do; a stop while not capturing changes nothing.
C16_StopEndsIdle ==
    [][/\ (is_capturing /\ op' \in StopOps => ~is_capturing')
       /\ (is_capturing /\ ~is_capturing' =>
              /\ current_session' = current_session
              /\ heap'[current_session].end_time = now'
              /\ heap'[current_session].end_time # NoTime
              /\ heap'[current_session].duration = now' - start_time)
       /\ (op' = "stop_noop" =>
              UNCHANGED <<ui_vars, mem_vars, disk_vars, registered>>)]_vars

\* A stop has ended although the hotkey could not be removed.
C16_Witness ==
    /\ op \in StopOps
    /\ ~is_capturing
    /\ hotkey_obj # None
    /\ heap[current_session].end_time # NoTime

\* C18: a cancelled preview commits nothing: the step that ends it changes
\* neither the tool's state, nor a session dict, nor the history, nor a file
\* or directory, and no capture ever stems from a cancelled preview.
C18_CancelCommitsNothing ==
    [][/\ (op' = "trigger_cancelled" =>
              UNCHANGED <<ui_vars, mem_vars, disk_vars, registered>>)
       /\ \A r \in Refs : \A i \in 1..Len(heap'[r].captures) :
              heap'[r].captures[i].description.text # "<cancel>"]_vars

\* A preview was cancelled in an armed session that already has a capture.
C18_Witness ==
    /\ op = "trigger_cancelled"
    /\ is_capturing
    /\ heap[current_session].captures # <<>>

\* C19: a failed grab and a failed image write end the trigger only: the
\* capturing flag, the hotkey, the current session and every session dict
\* stay as they are and the listener is free for the next key event; a
\* capture is appended only when its image file has been written.
C19_FailureAbortsTriggerOnly ==
    [][/\ (op' \in {"trigger_failed", "capture_save_failed"} =>
              /\ UNCHANGED <<ui_vars, heap, registered>>
              /\ handlers' = <<>>)
       /\ ((op' = "capture_added" /\ heap' # heap) =>
              LET caps == heap'[current_session].captures
              IN caps[Len(caps)].image_path \in img_files')]_vars

\* The image write has just failed in an armed session while a later key
\* event waits to be handled.
C19_Witness ==
    /\ op = "capture_save_failed"
    /\ is_capturing
    /\ queue # <<>>

\* C20 as stated: when the listener's handling of a key event ends the
\* capture (ImportError of the grab), no hotkey handle and no registration
\* is left and the session has received no capture.
C20_AutoStop ==
    [][(is_capturing /\ ~is_capturing' /\ (queue' # queue \/ todo' # todo)) =>
          /\ hotkey_obj' = None
          /\ registered' = {}
          /\ heap'[current_session].captures = heap[current_session].captures]_vars


\* C21 as stated: once a trigger has added a capture, the record file of
\* the armed session holds the session with that capture.
C21_CapturePersisted ==
    [][(op' = "capture_added" /\ heap' # heap) =>
          records'[heap'[current_session'].id] =
              JsonFile(json_dump(heap'[current_session']))]_vars


\* C22 as stated: within a session no two captures share an image_path, and
\* every image_path lies under the session's own image directory.
C22_ImagePathUnique ==
    \A r \in Refs :
        LET caps == heap[r].captures
        IN \A i, j \in 1..Len(caps) :
              /\ caps[i].image_path.dir = heap[r].id
              /\ (caps[i].image_path = caps[j].image_path => i = j)


\* C23 as stated: every capture of every session record in the sessions
\* directory refers to an image file that exists.
C23_NoOrphanedMetadata ==
    \A sid \in Sids :
        records[sid].kind = "json" =>
            \A i \in 1..Len(records[sid].val.captures) :
                records[sid].val.captures[i].image_path \in img_files


\* C24 as stated: after the stop of a session without captures, and after a
\* start that failed at the registration of the hotkey, no image directory
\* of that session exists.
C24_NoDirectoryLeft ==
    (\/ op \in HotkeyFailed
     \/ op = "stop_empty" /\ heap[current_session].captures = <<>>)
        => current_session_id \notin dirs


\* The image-space point under canvas point p for scale and offset c.
ImagePoint(p, c) ==
    <<QDiv(QSub(Q(p[1], 1), c.x_pos), c.scale),
      QDiv(QSub(Q(p[2], 1), c.y_pos), c.scale)>>

\* A zoom-in from scale s to s2 respects the upper bound and saturates at it.
ZoomedIn(s, s2) ==
    /\ ~QLess(MaxScale, s2)
    /\ QLess(MaxScale, QMul(s, ZoomStep)) => s2 = MaxScale

\* A zoom-out from scale s to s2 respects the lower bound and saturates at it.
ZoomedOut(s, s2) ==
    /\ ~QLess(s2, MinScale)
    /\ QLess(QDiv(s, ZoomStep), MinScale) => s2 = MinScale

\* C25: after a zoom-in the scale is at most 5.0, after a zoom-out at least
\* 0.1, in the capture preview and in the image viewer; a step that would
\* pass a bound ends at the bound.
C25_ScaleClamped ==
    [][wheels' # wheels =>
          /\ op' = "wheel_in"    => ZoomedIn(canvas.scale, canvas'.scale)
          /\ op' = "wheel_out"   => ZoomedOut(canvas.scale, canvas'.scale)
          /\ op' = "viewer_in"   => ZoomedIn(scale_factor, scale_factor')
          /\ op' = "viewer_out"  => ZoomedOut(scale_factor, scale_factor')]_vars

\* A zoom-in has just ended at the upper bound, which the scale was below.
C25_Witness ==
    /\ op = "wheel_in"
    /\ wheels = MaxWheel
    /\ canvas.scale = MaxScale
    /\ canvas.x_pos.d # 1

\* C26: a wheel event at canvas point p that changes the scale leaves the
\* image-space point under p where it was, clamped steps included.
C26_ZoomAnchored ==
    [][\A p \in Pts, zoom_in \in BOOLEAN :
          (on_mousewheel(p, zoom_in) /\ canvas'.scale # canvas.scale) =>
              ImagePoint(p, canvas') = ImagePoint(p, canvas)]_vars

\* A zoom-out has been cut at the lower bound and has moved the image.
C26_Witness ==
    /\ op = "wheel_out"
    /\ canvas.scale = MinScale
    /\ canvas.x_pos.d # 1


\* A crop box with its first corner inside the image and a second corner
\* that is at most `far` away from the origin in each direction.
BoxWithin(r, farx, fary) ==
    /\ 0 <= r[1] /\ r[1] < r[3] /\ r[3] <= farx
    /\ 0 <= r[2] /\ r[2] < r[4] /\ r[4] <= fary

\* C27, amended: an accepted crop region has non-zero width and height and
\* lies inside the image, 0 <= x1 < x2 <= width and 0 <= y1 < y2 <= height,
\* in the preview and when it reaches the compositor; a selection of at most
\* 5 canvas pixels in a direction leaves the region as it was.
C27_RegionInsideImage ==
    [][/\ selected_region' # <<>> => BoxWithin(selected_region', OrigW, OrigH)
       /\ result'.crop # <<>> => BoxWithin(result'.crop, OrigW, OrigH)
       /\ \A p \in Pts :
             (/\ on_mouse_up(p) /\ current_mode = "select" /\ rect_id
              /\ (Abs(p[1] - start_xy[1]) <= 5 \/ Abs(p[2] - start_xy[2]) <= 5))
                => selected_region' = selected_region]_vars

\* A region that was cut at the right border of the image has reached the
\* compositor.
C27_Witness ==
    /\ result.done
    /\ result.crop # <<>>
    /\ result.crop[3] = OrigW

\* C27 as stated: both corners of an accepted region are inside
\* [0, width) x [0, height).
C27_CornersInsideImage ==
    selected_region # <<>> => BoxWithin(selected_region, OrigW - 1, OrigH - 1)

\* C28 as stated: with a crop region set, every point of every line the
\* compositor draws is inside [0, x2 - x1) x [0, y2 - y1).
C28_StrokeClipped ==
    (result.done /\ result.crop # <<>>) =>
        \A k \in 1..Len(result.lines) : \A i \in 1..Len(result.lines[k]) :
            \A e \in 1..2 :
                LET pt == result.lines[k][i][e]
                IN /\ 0 <= pt[1] /\ pt[1] < result.crop[3] - result.crop[1]
                   /\ 0 <= pt[2] /\ pt[2] < result.crop[4] - result.crop[2]


\* A base key: a single letter, a single digit, or a function key f1..f12.
BaseKey(part) == part \in Letters \cup Digits \cup FunctionKeys

\* A combination of modifiers and exactly one base key.
WellFormedCombo(hk) ==
    /\ \A i \in 1..Len(hk) : hk[i] \in Modifiers \/ BaseKey(hk[i])
    /\ Cardinality({i \in 1..Len(hk) : BaseKey(hk[i])}) = 1

\* C29 as stated: the hotkey setting changes the configured hotkey or the
\* config file only to a combination of modifiers and exactly one base key.
C29_HotkeySyntax ==
    [][(hotkey' # hotkey \/ config_file' # config_file) => WellFormedCombo(hotkey')]_vars


\* C30 as stated: a record file that holds a complete session record holds
\* a complete record after every step, also after a save that was cut short.
C30_PriorVersionKept ==
    [][\A sid \in Sids :
          records[sid].kind = "json" => records'[sid].kind = "json"]_vars


\* ------------------------------------------------------------- session edits
\* C31: the name of a session is never empty: no session dict in memory that
\* has an id, and no session record, has the name "".
C31_NameNonEmpty ==
    /\ \A r \in Refs : heap[r] # Free /\ heap[r].id # None => heap[r].name # ""
    /\ \A sid \in Sids : records[sid].kind = "json" => records[sid].val.name # ""


\* The fields of a session that record when it ran.
Timing(s) == <<s.id, s.start_time, s.end_time, s.duration>>

EditOps == {"renamed", "info_saved", "description_edited", "capture_deleted"}

\* C32: duration is written once, by stop, as the seconds between arming and
\* stopping.  A step that changes id, start_time, end_time or duration of a
\* session dict or of a session record is a stop of that session, which was
\* not stamped before and gets duration = stop time - start_time; the dicts a
\* reload builds carry the timing of their records; rename, save-info,
\* description edit and capture delete change the timing of no dict and of
\* no record.
C32_DurationWrittenByStop ==
    [][/\ \A sid \in Sids :
            records[sid].kind = "json" /\ records'[sid].kind = "json"
            /\ Timing(records'[sid].val) # Timing(records[sid].val)
            => /\ is_capturing /\ ~is_capturing' /\ sid = current_session_id
               /\ records[sid].val.end_time = NoTime
               /\ records'[sid].val.duration = now' - start_time
       /\ \A r \in Refs :
            heap[r] # Free /\ heap'[r] # Free /\ heap'[r].id = heap[r].id
            /\ Timing(heap'[r]) # Timing(heap[r])
            => /\ is_capturing /\ ~is_capturing' /\ r = current_session
               /\ heap[r].end_time = NoTime
               /\ heap'[r].duration = now' - start_time
       /\ (op' \in StopOps =>
              \A j \in 1..Len(history_sessions') :
                  LET s == heap'[history_sessions'[j]]
                  IN records'[s.id].kind = "json"
                     /\ Timing(s) = Timing(records'[s.id].val))
       /\ (op' \in EditOps =>
              /\ \A r \in Refs : heap[r] # Free => Timing(heap'[r]) = Timing(heap[r])
              /\ \A sid \in Sids :
                    records[sid].kind = "json" =>
                        /\ records'[sid].kind = "json"
                        /\ Timing(records'[sid].val) = Timing(records[sid].val))
      ]_vars

\* A session that ran for a second has been renamed or edited.
C32_Witness ==
    /\ op \in EditOps
    /\ \E sid \in Sids :
          /\ records[sid].kind = "json"
          /\ records[sid].val.duration > 0
          /\ records[sid].val.name = "B"


\* C33 as stated: after a start whose image directory could not be created
\* the tool is not capturing, holds no hotkey handle, no registration is
\* alive, and neither a record nor a directory nor an image of the new
\* session id exists.
C33_FailedDirIsIdle ==
    op = "start_dir_failed" =>
        /\ ~is_capturing
        /\ hotkey_obj = None
        /\ registered = {}
        /\ records[current_session_id].kind = "none"
        /\ current_session_id \notin dirs
        /\ \A f \in img_files : f.dir # current_session_id


\* ------------------------------------------------------------- compositor
\* C34 as stated: with a crop region set, every line the compositor draws
\* joins two points that follow each other in the stroke as it was drawn and
\* that both lie in the region.
C34_NoBridging ==
    (result.done /\ result.crop # <<>>) =>
        \A k \in 1..Len(result.lines) : \A i \in 1..Len(result.lines[k]) :
            LET path == annotation_paths[k]
                org  == <<result.crop[1], result.crop[2]>>
                seg  == result.lines[k][i]
            IN \E j \in 1..(Len(path) - 1) :
                  /\ InRegion(path[j], result.crop)
                  /\ InRegion(path[j + 1], result.crop)
                  /\ seg[1] = <<path[j][1] - org[1], path[j][2] - org[2]>>
                  /\ seg[2] = <<path[j + 1][1] - org[1], path[j + 1][2] - org[2]>>


\* The labels whose anchor lies in the region r, its edges included.
Inside(labels, r) == {i \in 1..Len(labels) : InRegion(<<labels[i][1], labels[i][2]>>, r)}

\* The label l moved by (-x1, -y1) of the region r.
Translated(l, r) == <<l[1] - r[1], l[2] - r[2], l[3]>>

C36_ReEditConfined ==
    [][/\ (reedit.open /\ op' \in {"reedit_saved", "reedit_save_failed"} /\ ~reedit'.open =>
              LET caps  == heap[reedit.session].captures
                  caps2 == heap'[reedit.session].captures
              IN /\ Len(caps2) = Len(caps)
                 /\ \A i \in 1..Len(caps) :
                       /\ caps2[i].id = caps[i].id
                       /\ caps2[i].time = caps[i].time
                       /\ caps2[i].image_path = caps[i].image_path
                       /\ caps2[i].trig = caps[i].trig
                       /\ caps[i].trig # reedit.target =>
                             /\ caps2[i].description = caps[i].description
                             /\ caps[i].image_path # reedit.path
                 /\ img_files' = img_files
                 /\ \A r \in Refs \ {reedit.session} : heap'[r] = heap[r]
                 /\ \A sid \in Sids \ {heap[reedit.session].id} :
                       records'[sid] = records[sid])
       /\ (reedit.open /\ op' = "reedit_cancelled" =>
              UNCHANGED <<mem_vars, disk_vars>>)
      ]_vars


\* C37 as stated: a rename from the history list writes back no older copy
\* of the session: the record it leaves has the captures and the description
\* of the record it found.
C37_NoStaleWriteBack ==
    [][op' = "renamed" =>
          \A sid \in Sids :
              records[sid].kind = "json" =>
                  /\ records'[sid].kind = "json"
                  /\ records'[sid].val.captures = records[sid].val.captures
                  /\ records'[sid].val.description = records[sid].val.description
      ]_vars


\* ------------------------------------------------------------- session delete, again
DeleteOps == {"delete_not_found", "delete_record_failed", "delete_images_failed",
              "session_deleted"}

\* The record, the directory or an image of session sid differs in the next
\* state.
DiskChanged(sid) ==
    \/ records'[sid] # records[sid]
    \/ (sid \in dirs') # (sid \in dirs)
    \/ FilesIn(img_files', sid) # FilesIn(img_files, sid)

\* C38 as stated: after a delete attempt, whatever its outcome, every
\* session of the history list that had a record file still has it, and the
\* attempt changed the record, the directory and the images of one session
\* at most.
C38_DeleteConsistent ==
    [][op' \in DeleteOps =>
          /\ \A sid \in HistoryIds(heap', history_sessions') :
                records[sid].kind # "none" => records'[sid].kind # "none"
          /\ \A a, b \in Sids : DiskChanged(a) /\ DiskChanged(b) => a = b
      ]_vars


\* ------------------------------------------------------------- hotkey while armed
\* C39 as stated: set_hotkey changes nothing while a session is armed; in
\* every armed state every registration alive is for the configured
\* combination; a stop unregisters the registration of the start it matches
\* and only that.
C39_ArmedHotkeyFixed ==
    [][/\ (is_capturing /\ is_capturing' => hotkey' = hotkey)
       /\ (is_capturing' =>
              /\ hotkey_obj' \in registered'
              /\ \A h \in registered' : combos'[h] = hotkey')
       /\ (is_capturing /\ ~is_capturing' =>
              registered' = registered \ {hotkey_obj})
      ]_vars

=============================================================================
